---- MODULE Spec2Model ----
\* Authentication and authorization-context pipeline of the ReLIFE service API
\* (service-api/src/service_api/app.py and the modular layout of
\* example-service-api/src/service_api/auth/dependencies.py).
\*
\* Text (URLs, headers, error messages) is a sequence of string tokens, so that
\* formatting ("Bearer " + token, str(e), url.replace(...)) is computed and not
\* assumed.  A JSON object / Python dict is a function whose DOMAIN is its keys.
EXTENDS Integers, Sequences, FiniteSets, TLC

VARIABLES
    impl,       \* which application the process runs: "app" | "modular"
    settings,   \* process-wide Settings (get_settings, lru_cache)
    pc,         \* per request: position in the dependency / handler chain
    req,        \* per request: inbound credential and route
    local,      \* per request: locals of _get_authenticated_user
    result,     \* per request: the AuthenticatedUser being built / returned
    calls,      \* per request: outbound calls issued, in order
    handle,     \* per request: the Supabase client handed to the endpoint
    resp,       \* per request: caller-visible HTTP response
    logs        \* process log (uvicorn logger)

vars == <<impl, settings, pc, req, local, result, calls, handle, resp, logs>>

----------------------------------------------------------------------------
\* Bounds of the model

NumReqs == 2
MaxRoles == 2

Reqs == 1..NumReqs

----------------------------------------------------------------------------
\* Values

NoneRoles == [isNone |-> TRUE, v |-> <<>>]
SomeRoles(rs) == [isNone |-> FALSE, v |-> rs]

NoText == <<>>

HTTP_401_UNAUTHORIZED == 401
HTTP_403_FORBIDDEN == 403

DefaultAdminRoleName == "relife_admin"

Settings(adminRole) ==
    [supabase_url |-> "https://supabase.local",
     supabase_key |-> "service-role-key",
     keycloak_client_id |-> "relife-client",
     keycloak_client_secret |-> "relife-secret",
     admin_role_name |-> adminRole]

AdminRoleNames == {"relife_admin", "RELIFE_ADMIN", "admin"}

----------------------------------------------------------------------------
\* Text helpers

RECURSIVE ReplaceTok(_, _, _)
\* str.replace(old, new) on a token sequence: every occurrence is replaced
ReplaceTok(s, old, new) ==
    IF s = <<>> THEN <<>>
    ELSE <<IF Head(s) = old THEN new ELSE Head(s)>> \o ReplaceTok(Tail(s), old, new)

RECURSIVE RStripTok(_, _)
\* str.rstrip(ch): trailing occurrences of ch are removed
RStripTok(s, ch) ==
    IF s # <<>> /\ s[Len(s)] = ch THEN RStripTok(SubSeq(s, 1, Len(s) - 1), ch) ELSE s

----------------------------------------------------------------------------
\* Exceptions.  `text` is what str(e) yields.

\* status of a call that has not returned yet / whose peer was unreachable
Pending == 0
NoAnswer == -1

KeyError(key) ==
    [class |-> "KeyError", status_code |-> 0, text |-> <<"'", key, "'">>]

\* httpx.HTTPStatusError raised by Response.raise_for_status()
HTTPStatusError(code, url) ==
    [class |-> "HTTPStatusError", status_code |-> code,
     text |-> <<IF code >= 500 THEN "Server error '" ELSE "Client error '",
                ToString(code), "' for url '">> \o url \o <<"'">>]

\* fastapi.HTTPException; str() is "<status_code>: <detail>"
HTTPException(code, detail) ==
    [class |-> "HTTPException", status_code |-> code,
     text |-> <<ToString(code), ": ">> \o detail]

\* pydantic.ValidationError for a missing required field of KeycloakRole
ValidationError(field) ==
    [class |-> "ValidationError", status_code |-> 0,
     text |-> <<"1 validation error for KeycloakRole: ", field, " field required">>]

\* gotrue error on a rejected token (the backend answered 401 or 403),
\* httpx.ConnectError on an unreachable backend
AuthApiError(msg, code) ==
    [class |-> "AuthApiError", status_code |-> code, text |-> <<msg>>]
ConnectError == [class |-> "ConnectError", status_code |-> NoAnswer,
                 text |-> <<"All connection attempts failed">>]

NoExc == [class |-> "", status_code |-> 0, text |-> NoText]

Ok(v) == [ok |-> TRUE, val |-> v, exc |-> NoExc]
Raise(e) == [ok |-> FALSE, val |-> NoText, exc |-> e]

----------------------------------------------------------------------------
\* Environment: the identity backend (Supabase auth) and the authorization
\* server (Keycloak).  These are the inputs of the pipeline.

IssR1 == <<"https://idp", "/realms", "/r1">>
IssR2 == <<"https://idp2", "/realms", "/r2", "/">>

User(id, metadata) == [id |-> id, email |-> id, user_metadata |-> metadata]

Credentials == {"tok-A", "tok-B", "tok-noiss", "tok-nopid", "expired"}

\* what client.auth.get_user(token) yields when the backend answers
IdentityBackend(token) ==
    CASE token = "tok-A" ->
           Ok(User("u1", ("iss" :> IssR1) @@ ("provider_id" :> <<"sub-1">>)))
      [] token = "tok-B" ->
           Ok(User("u2", ("iss" :> IssR2) @@ ("provider_id" :> <<"sub-2">>)))
      [] token = "tok-noiss" ->
           Ok(User("u3", ("provider_id" :> <<"sub-3">>)))
      [] token = "tok-nopid" ->
           Ok(User("u4", ("iss" :> IssR1)))
      [] OTHER -> Raise(AuthApiError("invalid JWT: token is expired", 401))

\* the concurrent specification draws the credentials from this subset
FewCredentials == {"tok-A", "tok-B", "expired"}

\* the backend answers, or cannot be reached
BackendOutcomes(token) == {IdentityBackend(token), Raise(ConnectError)}

AdminTokens == {"admin-tok", "admin-tok-2"}

HttpResponse(code, json) == [status_code |-> code, json |-> json]

\* answers of the token endpoint: a token, a body without access_token, errors
TokenResponses ==
    {HttpResponse(200, "access_token" :> t) : t \in AdminTokens}
    \cup {HttpResponse(200, "token_type" :> "Bearer"),
          HttpResponse(401, "error" :> "unauthorized_client")}

\* role entries as the admin API may send them (JSON objects)
RoleEntries ==
    {("id" :> "1") @@ ("name" :> "relife_admin"),
     ("id" :> "2") @@ ("name" :> "RELIFE_ADMIN") @@ ("composite" :> "false"),
     ("id" :> "3"),
     ("name" :> "relife_admin")}

RECURSIVE SeqsUpTo(_, _)
SeqsUpTo(S, n) ==
    IF n = 0 THEN {<<>>}
    ELSE LET shorter == SeqsUpTo(S, n - 1)
         IN shorter \cup {Append(s, x) : s \in shorter, x \in S}

RolePayloads == SeqsUpTo(RoleEntries, MaxRoles)

RoleResponses ==
    {HttpResponse(200, p) : p \in RolePayloads}
    \cup {HttpResponse(500, <<>>), HttpResponse(403, <<>>)}

\* the concurrent specification draws the role-lookup answers from this subset
FewRoleResponses ==
    {HttpResponse(200, <<("id" :> "1") @@ ("name" :> "relife_admin")>>),
     HttpResponse(500, <<>>)}

\* and the token endpoint's answers from this one
FewTokenResponses ==
    {HttpResponse(200, "access_token" :> t) : t \in AdminTokens}
    \cup {HttpResponse(401, "error" :> "unauthorized_client")}

----------------------------------------------------------------------------
\* Access-handle factory

EmptyHeaders == <<>>

\* supabase.create_async_client(url, key, options=ClientOptions(headers=...))
create_async_client(url, key, headers) ==
    [supabase_url |-> url, supabase_key |-> key, headers |-> headers]

NoHandle == create_async_client("", "", EmptyHeaders)

get_service_client(s) ==
    create_async_client(s.supabase_url, s.supabase_key, EmptyHeaders)

\* variant: the header is left out, the client keeps the service key
get_user_client_no_header(current_user, s) ==
    create_async_client(s.supabase_url, s.supabase_key, EmptyHeaders)

get_user_client(current_user, s) ==
    create_async_client(s.supabase_url, s.supabase_key,
                        "Authorization" :> <<"Bearer ", current_user.token>>)

\* the Authorization a client sends: its own header, else the key it was built with
ClientAuthorization(client) ==
    IF "Authorization" \in DOMAIN client.headers
    THEN client.headers["Authorization"]
    ELSE <<"Bearer ", client.supabase_key>>

----------------------------------------------------------------------------
\* Models (pydantic)

OptField(d, k) == IF k \in DOMAIN d THEN d[k] ELSE "None"

\* KeycloakRole(**role): id and name are required, the rest default to None,
\* unknown keys are ignored
KeycloakRole(role) ==
    LET missing == SelectSeq(<<"id", "name">>, LAMBDA k : k \notin DOMAIN role)
    IN IF missing # <<>>
       THEN Raise(ValidationError(missing[1]))
       ELSE Ok([id |-> role["id"], name |-> role["name"],
                description |-> OptField(role, "description"),
                composite |-> OptField(role, "composite"),
                clientRole |-> OptField(role, "clientRole"),
                containerId |-> OptField(role, "containerId")])

RECURSIVE ParseRoles_skipping(_)
\* variant: an entry that does not validate is left out
ParseRoles_skipping(roles) ==
    IF roles = <<>> THEN Ok(<<>>)
    ELSE LET h == KeycloakRole(Head(roles))
             t == ParseRoles_skipping(Tail(roles))
         IN IF ~h.ok THEN t ELSE Ok(<<h.val>> \o t.val)

RECURSIVE ParseRoles_reversed(_)
\* variant: the roles come out in the opposite order
ParseRoles_reversed(roles) ==
    IF roles = <<>> THEN Ok(<<>>)
    ELSE LET h == KeycloakRole(Head(roles))
         IN IF ~h.ok THEN h
            ELSE LET t == ParseRoles_reversed(Tail(roles))
                 IN IF ~t.ok THEN t ELSE Ok(t.val \o <<h.val>>)

RECURSIVE ParseRoles(_)
\* [KeycloakRole(**role) for role in roles]: the first bad entry raises
ParseRoles(roles) ==
    IF roles = <<>> THEN Ok(<<>>)
    ELSE LET h == KeycloakRole(Head(roles))
         IN IF ~h.ok THEN h
            ELSE LET t == ParseRoles(Tail(roles))
                 IN IF ~t.ok THEN t ELSE Ok(<<h.val>> \o t.val)

AuthenticatedUser(token, user) ==
    [token |-> token, user |-> user, keycloak_roles |-> NoneRoles]

NoUser == AuthenticatedUser("", User("", <<>>))

Lower(name) == IF name = "RELIFE_ADMIN" THEN "relife_admin" ELSE name

\* variant: the role name is compared without regard to case
has_admin_role_ignoring_case(u, s) ==
    IF u.keycloak_roles.isNone \/ u.keycloak_roles.v = <<>>
    THEN FALSE
    ELSE \E i \in DOMAIN u.keycloak_roles.v :
            Lower(u.keycloak_roles.v[i].name) = Lower(s.admin_role_name)

has_admin_role(u, s) ==
    IF u.keycloak_roles.isNone \/ u.keycloak_roles.v = <<>>
    THEN FALSE
    ELSE \E i \in DOMAIN u.keycloak_roles.v :
            u.keycloak_roles.v[i].name = s.admin_role_name

\* variant: an identity without resolved roles is let through
raise_if_not_admin_open(u, s) ==
    IF ~u.keycloak_roles.isNone /\ ~has_admin_role(u, s)
    THEN Raise(HTTPException(HTTP_403_FORBIDDEN, <<"User does not have admin role">>))
    ELSE Ok(NoText)

raise_if_not_admin(u, s) ==
    IF ~has_admin_role(u, s)
    THEN Raise(HTTPException(HTTP_403_FORBIDDEN, <<"User does not have admin role">>))
    ELSE Ok(NoText)

----------------------------------------------------------------------------
\* Authorization-server calls

\* an outbound call and, once it has returned, its answer: the status code
\* (Pending before, NoAnswer when the peer was unreachable) and the JSON body
Call(kind, url, auth, arg) ==
    [kind |-> kind, url |-> url, auth |-> auth, arg |-> arg,
     answer |-> Pending, body |-> <<>>]

Answered(cs, i, code, body) == [cs EXCEPT ![i].answer = code, ![i].body = body]

token_url(keycloak_url) == keycloak_url \o <<"/protocol/openid-connect/token">>

\* the POST of get_keycloak_token
token_request(keycloak_url, client_id, client_secret) ==
    Call("token", token_url(keycloak_url), NoText,
         <<"client_credentials", client_id, client_secret>>)

\* get_keycloak_token once the token endpoint has answered
get_keycloak_token(keycloak_url, response) ==
    IF response.status_code >= 400
    THEN Raise(HTTPException(HTTP_401_UNAUTHORIZED,
               HTTPStatusError(response.status_code, token_url(keycloak_url)).text))
    ELSE IF "access_token" \notin DOMAIN response.json
         THEN Raise(KeyError("access_token"))
         ELSE Ok(response.json["access_token"])

role_mapper_url(keycloak_url, user_id) ==
    RStripTok(ReplaceTok(keycloak_url, "/realms", "/admin/realms"), "/")
        \o <<"/users/">> \o user_id \o <<"/role-mappings/realm">>

\* variant: one admin token is kept for the whole process
roles_request_cached(keycloak_url, admin_token, user_id) ==
    Call("roles", role_mapper_url(keycloak_url, user_id),
         <<"Bearer ", "admin-tok">>, NoText)

\* the GET of get_keycloak_user_roles
roles_request(keycloak_url, admin_token, user_id) ==
    Call("roles", role_mapper_url(keycloak_url, user_id),
         <<"Bearer ", admin_token>>, NoText)

roles_log(keycloak_url, user_id) ==
    <<"Requesting roles for user ">> \o user_id \o <<" from ">>
        \o role_mapper_url(keycloak_url, user_id)

\* get_keycloak_user_roles once the admin API has answered: the raw JSON
get_keycloak_user_roles(keycloak_url, user_id, response) ==
    IF response.status_code >= 400
    THEN Raise(HTTPStatusError(response.status_code,
                               role_mapper_url(keycloak_url, user_id)))
    ELSE Ok(response.json)

\* service_api.auth.keycloak of the modular layout (Token Exchanger)
AuthorizationServerUnavailable(code, url) ==
    [class |-> "AuthorizationServerUnavailable", status_code |-> 0,
     text |-> <<"token exchange failed: ", ToString(code), " ">> \o url]

exchange(issuerUrl, response) ==
    IF response.status_code >= 400 \/ "access_token" \notin DOMAIN response.json
    THEN Raise(AuthorizationServerUnavailable(response.status_code, token_url(issuerUrl)))
    ELSE Ok(response.json["access_token"])

\* service_api.auth.keycloak of the modular layout (Role Resolver)
RoleLookupFailed(code, url) ==
    [class |-> "RoleLookupFailed", status_code |-> 0,
     text |-> <<"role lookup failed: ", ToString(code), " ">> \o url]

MalformedRolePayload(e) ==
    [class |-> "MalformedRolePayload", status_code |-> 0, text |-> e.text]

resolveRoles(issuerUrl, externalSubjectId, response) ==
    IF response.status_code >= 400
    THEN Raise(RoleLookupFailed(response.status_code,
                                role_mapper_url(issuerUrl, externalSubjectId)))
    ELSE LET parsed == ParseRoles(response.json)
         IN IF parsed.ok THEN parsed ELSE Raise(MalformedRolePayload(parsed.exc))

----------------------------------------------------------------------------
\* Routes and their dependencies

Routes == {"whoami", "report-request", "admin/users"}

\* variant: the roles are fetched whatever the dependency asked for
fetch_roles_always(route) == TRUE

\* AuthenticatedUserWithRoles (fetch_roles=True) or AuthenticatedUser (False)
fetch_roles(route) == route \in {"whoami", "admin/users"}

NoLocal == [keycloak_user_id |-> NoText, keycloak_url |-> NoText,
            realm_client_token |-> ""]

NoResp == [status_code |-> 0, detail |-> NoText]

\* variant: the wrong status constant
Unauthorized_as_forbidden(e) == [status_code |-> HTTP_403_FORBIDDEN, detail |-> e.text]

\* variant: an upstream status is passed on to the caller
Unauthorized_upstream(e) ==
    [status_code |-> IF e.status_code >= 400 THEN e.status_code
                     ELSE HTTP_401_UNAUTHORIZED,
     detail |-> e.text]

\* except Exception as e: raise HTTPException(401, detail=str(e))
Unauthorized(e) == [status_code |-> HTTP_401_UNAUTHORIZED, detail |-> e.text]

\* an HTTPException raised by an endpoint reaches the caller as it is
Rejected(e) == [status_code |-> e.status_code, detail |-> SubSeq(e.text, 3, Len(e.text))]

Success == [status_code |-> 200, detail |-> NoText]

\* the request has an AuthenticatedUser returned by the dependency
Returned(r) == pc[r] \in {"authed", "ready", "done", "forbidden"}

Finished(r) == pc[r] \in {"done", "unauthorized", "forbidden"}

\* variant: the exception is swallowed and the user built so far is returned
Fail_downgrade(r, e) ==
    /\ pc' = [pc EXCEPT ![r] = "authed"]
    /\ resp' = resp

\* variant: a failed hop sends the request back to verification
Fail_retry(r, e) ==
    /\ pc' = [pc EXCEPT ![r] = "verifying"]
    /\ resp' = resp

Fail(r, e) ==
    /\ pc' = [pc EXCEPT ![r] = "unauthorized"]
    /\ resp' = [resp EXCEPT ![r] = Unauthorized(e)]

\* variant: user_metadata.get(key, "") instead of user_metadata[key]
user_metadata_keys_lenient(user_metadata) ==
    Ok([keycloak_user_id |-> IF "provider_id" \in DOMAIN user_metadata
                             THEN user_metadata["provider_id"] ELSE NoText,
        keycloak_url |-> IF "iss" \in DOMAIN user_metadata
                         THEN user_metadata["iss"] ELSE NoText,
        realm_client_token |-> ""])

\* user_metadata["provider_id"], then user_metadata["iss"]
user_metadata_keys(user_metadata) ==
    IF "provider_id" \notin DOMAIN user_metadata THEN Raise(KeyError("provider_id"))
    ELSE IF "iss" \notin DOMAIN user_metadata THEN Raise(KeyError("iss"))
    ELSE Ok([keycloak_user_id |-> user_metadata["provider_id"],
             keycloak_url |-> user_metadata["iss"],
             realm_client_token |-> ""])

----------------------------------------------------------------------------
\* Actions

\* variant: the clients are built with the caller's credential as their header
Start_with_user_header(r, cred, route) ==
    LET client == create_async_client(settings.supabase_url, settings.supabase_key,
                                      "Authorization" :> <<"Bearer ", cred>>)
    IN /\ pc[r] = "idle"
       /\ req' = [req EXCEPT ![r] = [cred |-> cred, route |-> route]]
       /\ handle' = [handle EXCEPT ![r] =
                       IF route = "admin/users" THEN client ELSE NoHandle]
       /\ calls' = [calls EXCEPT ![r] =
                      <<Call("get_user", <<settings.supabase_url>>,
                             ClientAuthorization(client), <<cred>>)>>]
       /\ pc' = [pc EXCEPT ![r] = "verifying"]
       /\ UNCHANGED <<impl, settings, local, result, resp, logs>>

\* a request arrives; the dependencies start: the service client of the
\* admin route, then _get_authenticated_user up to client.auth.get_user(token)
Start(r, cred, route) ==
    /\ pc[r] = "idle"
    /\ req' = [req EXCEPT ![r] = [cred |-> cred, route |-> route]]
    /\ handle' = [handle EXCEPT ![r] =
                    IF route = "admin/users" THEN get_service_client(settings)
                    ELSE NoHandle]
    /\ calls' = [calls EXCEPT ![r] =
                   <<Call("get_user", <<settings.supabase_url>>,
                          ClientAuthorization(get_service_client(settings)),
                          <<cred>>)>>]
    /\ pc' = [pc EXCEPT ![r] = "verifying"]
    /\ UNCHANGED <<impl, settings, local, result, resp, logs>>

\* get_user returns or raises; without roles the user is returned, with roles
\* the metadata is read and the token exchange is posted
VerifyReturn(r, outcome) ==
    /\ pc[r] = "verifying"
    /\ IF ~outcome.ok
       THEN /\ Fail(r, outcome.exc)
            /\ calls' = [calls EXCEPT ![r] =
                           Answered(@, 1, outcome.exc.status_code, <<>>)]
            /\ UNCHANGED <<result, local>>
       ELSE /\ result' = [result EXCEPT ![r] =
                            AuthenticatedUser(req[r].cred, outcome.val)]
            /\ IF ~fetch_roles(req[r].route)
               THEN /\ pc' = [pc EXCEPT ![r] = "authed"]
                    /\ calls' = [calls EXCEPT ![r] = Answered(@, 1, 200, <<>>)]
                    /\ UNCHANGED <<local, resp>>
               ELSE LET md == user_metadata_keys(outcome.val.user_metadata)
                    IN IF ~md.ok
                       THEN /\ Fail(r, md.exc)
                            /\ calls' = [calls EXCEPT ![r] = Answered(@, 1, 200, <<>>)]
                            /\ UNCHANGED local
                       ELSE /\ local' = [local EXCEPT ![r] = md.val]
                            /\ calls' = [calls EXCEPT ![r] = Append(
                                  Answered(@, 1, 200, <<>>),
                                  token_request(md.val.keycloak_url,
                                                settings.keycloak_client_id,
                                                settings.keycloak_client_secret))]
                            /\ pc' = [pc EXCEPT ![r] = "exchanging"]
                            /\ UNCHANGED resp
    /\ UNCHANGED <<impl, settings, req, handle, logs>>

\* variant: the token obtained is written to the log
TokenReturn_logging_token(r, response) ==
    /\ pc[r] = "exchanging"
    /\ LET t == IF impl = "app"
                THEN get_keycloak_token(local[r].keycloak_url, response)
                ELSE exchange(local[r].keycloak_url, response)
           cs == Answered(calls[r], 2, response.status_code, response.json)
       IN IF ~t.ok
          THEN /\ Fail(r, t.exc)
               /\ calls' = [calls EXCEPT ![r] = cs]
               /\ UNCHANGED <<local, logs>>
          ELSE /\ local' = [local EXCEPT ![r].realm_client_token = t.val]
               /\ calls' = [calls EXCEPT ![r] = Append(cs,
                     roles_request(local[r].keycloak_url, t.val,
                                   local[r].keycloak_user_id))]
               /\ logs' = logs \cup {<<"Obtained admin token ", t.val>>}
               /\ pc' = [pc EXCEPT ![r] = "resolving"]
               /\ UNCHANGED resp
    /\ UNCHANGED <<impl, settings, req, result, handle>>

\* the token endpoint answers; on success the role lookup is sent
TokenReturn(r, response) ==
    /\ pc[r] = "exchanging"
    /\ LET t == IF impl = "app"
                THEN get_keycloak_token(local[r].keycloak_url, response)
                ELSE exchange(local[r].keycloak_url, response)
           cs == Answered(calls[r], 2, response.status_code, response.json)
       IN IF ~t.ok
          THEN /\ Fail(r, t.exc)
               /\ calls' = [calls EXCEPT ![r] = cs]
               /\ UNCHANGED <<local, logs>>
          ELSE /\ local' = [local EXCEPT ![r].realm_client_token = t.val]
               /\ calls' = [calls EXCEPT ![r] = Append(cs,
                     roles_request(local[r].keycloak_url, t.val,
                                   local[r].keycloak_user_id))]
               /\ logs' = IF impl = "app"
                          THEN logs \cup {roles_log(local[r].keycloak_url,
                                                    local[r].keycloak_user_id)}
                          ELSE logs
               /\ pc' = [pc EXCEPT ![r] = "resolving"]
               /\ UNCHANGED resp
    /\ UNCHANGED <<impl, settings, req, result, handle>>

\* what _get_authenticated_user makes of the role lookup's answer
resolved_roles(im, keycloak_url, user_id, response) ==
    IF im = "app"
    THEN LET roles == get_keycloak_user_roles(keycloak_url, user_id, response)
         IN IF ~roles.ok THEN roles ELSE ParseRoles(roles.val)
    ELSE resolveRoles(keycloak_url, user_id, response)

\* the admin API answers; the roles are attached and the user returned
RolesReturn(r, response) ==
    /\ pc[r] = "resolving"
    /\ LET roles == resolved_roles(impl, local[r].keycloak_url,
                                   local[r].keycloak_user_id, response)
       IN IF ~roles.ok
          THEN /\ Fail(r, roles.exc)
               /\ UNCHANGED result
          ELSE /\ result' = [result EXCEPT ![r].keycloak_roles = SomeRoles(roles.val)]
               /\ pc' = [pc EXCEPT ![r] = "authed"]
               /\ UNCHANGED resp
    /\ calls' = [calls EXCEPT ![r] =
                   Answered(@, 3, response.status_code, response.json)]
    /\ UNCHANGED <<impl, settings, req, local, handle, logs>>

\* GET /whoami
whoami_with_roles(r) ==
    /\ pc[r] = "authed" /\ req[r].route = "whoami"
    /\ resp' = [resp EXCEPT ![r] = Success]
    /\ pc' = [pc EXCEPT ![r] = "done"]
    /\ UNCHANGED <<impl, settings, req, local, result, calls, handle, logs>>

\* the UserClient dependency of the report routes
UserClient(r) ==
    /\ pc[r] = "authed" /\ req[r].route = "report-request"
    /\ handle' = [handle EXCEPT ![r] = get_user_client(result[r], settings)]
    /\ pc' = [pc EXCEPT ![r] = "ready"]
    /\ UNCHANGED <<impl, settings, req, local, result, calls, resp, logs>>

\* GET /report-request
list_report_requests(r) ==
    /\ pc[r] = "ready"
    /\ calls' = [calls EXCEPT ![r] = Append(@,
          Call("query", <<handle[r].supabase_url>>, ClientAuthorization(handle[r]),
               <<"report_requests", result[r].user.id>>))]
    /\ resp' = [resp EXCEPT ![r] = Success]
    /\ pc' = [pc EXCEPT ![r] = "done"]
    /\ UNCHANGED <<impl, settings, req, local, result, handle, logs>>

\* variant: the table is read before the admin check
list_all_users_query_first(r) ==
    /\ pc[r] = "authed" /\ req[r].route = "admin/users"
    /\ calls' = [calls EXCEPT ![r] = Append(@,
          Call("query", <<handle[r].supabase_url>>,
               ClientAuthorization(handle[r]), <<"private_table">>))]
    /\ LET chk == raise_if_not_admin(result[r], settings)
       IN IF ~chk.ok
          THEN /\ resp' = [resp EXCEPT ![r] = Rejected(chk.exc)]
               /\ pc' = [pc EXCEPT ![r] = "forbidden"]
          ELSE /\ resp' = [resp EXCEPT ![r] = Success]
               /\ pc' = [pc EXCEPT ![r] = "done"]
    /\ UNCHANGED <<impl, settings, req, local, result, handle, logs>>

\* GET /admin/users
list_all_users(r) ==
    /\ pc[r] = "authed" /\ req[r].route = "admin/users"
    /\ LET chk == raise_if_not_admin(result[r], settings)
       IN IF ~chk.ok
          THEN /\ resp' = [resp EXCEPT ![r] = Rejected(chk.exc)]
               /\ pc' = [pc EXCEPT ![r] = "forbidden"]
               /\ UNCHANGED calls
          ELSE /\ calls' = [calls EXCEPT ![r] = Append(@,
                     Call("query", <<handle[r].supabase_url>>,
                          ClientAuthorization(handle[r]), <<"private_table">>))]
               /\ resp' = [resp EXCEPT ![r] = Success]
               /\ pc' = [pc EXCEPT ![r] = "done"]
    /\ UNCHANGED <<impl, settings, req, local, result, handle, logs>>

----------------------------------------------------------------------------
\* Specifications

InitRequests ==
    /\ pc = [r \in Reqs |-> "idle"]
    /\ req = [r \in Reqs |-> [cred |-> "", route |-> ""]]
    /\ local = [r \in Reqs |-> NoLocal]
    /\ result = [r \in Reqs |-> NoUser]
    /\ calls = [r \in Reqs |-> <<>>]
    /\ handle = [r \in Reqs |-> NoHandle]
    /\ resp = [r \in Reqs |-> NoResp]
    /\ logs = {}

\* the server with the default settings, handling NumReqs requests concurrently
Init ==
    /\ impl \in {"app", "modular"}
    /\ settings = Settings(DefaultAdminRoleName)
    /\ InitRequests

Next ==
    \E r \in Reqs :
        \/ \E cred \in FewCredentials, route \in Routes : Start(r, cred, route)
        \/ VerifyReturn(r, IdentityBackend(req[r].cred))
        \/ \E response \in FewTokenResponses : TokenReturn(r, response)
        \/ \E response \in FewRoleResponses : RolesReturn(r, response)
        \/ whoami_with_roles(r)
        \/ UserClient(r)
        \/ list_report_requests(r)
        \/ list_all_users(r)

Spec == Init /\ [][Next]_vars

\* one request through the pipeline, over every configured admin-role name,
\* every backend outcome and every answer of the authorization server
InitPipeline ==
    /\ impl \in {"app", "modular"}
    /\ settings \in {Settings(n) : n \in AdminRoleNames}
    /\ InitRequests

NextPipeline ==
    \/ \E cred \in Credentials, route \in Routes : Start(1, cred, route)
    \/ \E outcome \in BackendOutcomes(req[1].cred) : VerifyReturn(1, outcome)
    \/ \E response \in TokenResponses : TokenReturn(1, response)
    \/ \E response \in RoleResponses : RolesReturn(1, response)
    \/ whoami_with_roles(1)
    \/ UserClient(1)
    \/ list_report_requests(1)
    \/ list_all_users(1)

SpecPipeline == InitPipeline /\ [][NextPipeline]_vars

----------------------------------------------------------------------------
\* Properties

ScopedRoute(r) == req[r].route = "report-request"
RolesRoute(r) == req[r].route \in {"whoami", "admin/users"}

\* the roles are present and one of them is named exactly `name`
HoldsRoleNamed(u, name) ==
    /\ ~u.keycloak_roles.isNone
    /\ \E i \in 1..Len(u.keycloak_roles.v) : u.keycloak_roles.v[i].name = name

\* C1: the scoped handle of a request carries as Authorization exactly
\* "Bearer " + the credential of that request's identity, never no header and
\* never the credential of another request, whatever the interleaving
C1_ScopedHandleCredential ==
    \A r \in Reqs :
        (ScopedRoute(r) /\ pc[r] \in {"ready", "done"}) =>
            /\ "Authorization" \in DOMAIN handle[r].headers
            /\ handle[r].headers["Authorization"] = <<"Bearer ", req[r].cred>>
            /\ result[r].token = req[r].cred
            /\ \A q \in Reqs :
                  req[q].cred # req[r].cred =>
                      handle[r].headers["Authorization"] # <<"Bearer ", req[q].cred>>

\* two requests of distinct identities hold their scoped handles at once
C1_Witness ==
    \E r, q \in Reqs :
        /\ r # q /\ pc[r] = "ready" /\ pc[q] = "ready"
        /\ req[r].cred = "tok-A" /\ req[q].cred = "tok-B"

\* C2: raise_if_not_admin raises 403 for every identity that is not admin,
\* in particular for every identity built without roles; the admin route goes
\* on only when the roles were populated and contain the admin role
C2_RequireAdminFailsClosed ==
    \A r \in Reqs :
        /\ (req[r].route = "admin/users" /\ pc[r] \in {"done", "forbidden"}) =>
              /\ (pc[r] = "forbidden") <=>
                    ~HoldsRoleNamed(result[r], settings.admin_role_name)
              /\ pc[r] = "forbidden" =>
                    /\ resp[r].status_code = 403
                    /\ Len(calls[r]) = 3
              /\ pc[r] = "done" => resp[r].status_code = 200
        /\ (Returned(r) /\ result[r].keycloak_roles.isNone) =>
              /\ ~raise_if_not_admin(result[r], settings).ok
              /\ raise_if_not_admin(result[r], settings).exc.status_code = 403

\* the admin route refused an identity whose resolved roles lack the admin role
C2_Witness ==
    \E r \in Reqs :
        /\ pc[r] = "forbidden" /\ resp[r].status_code = 403
        /\ ~result[r].keycloak_roles.isNone
        /\ result[r].keycloak_roles.v # <<>>

\* C3: has_admin_role is true iff the roles are present and contain a role
\* whose name equals the configured admin-role name exactly (case matters);
\* with roles absent or empty it is false
C3_IsAdminIffExactRoleName ==
    \A r \in Reqs :
        Returned(r) =>
            /\ has_admin_role(result[r], settings)
                  <=> HoldsRoleNamed(result[r], settings.admin_role_name)
            /\ (result[r].keycloak_roles.isNone \/ result[r].keycloak_roles.v = <<>>)
                  => ~has_admin_role(result[r], settings)

\* an identity whose only role differs from the admin-role name in case alone
C3_Witness ==
    \E r \in Reqs :
        /\ Returned(r) /\ ~result[r].keycloak_roles.isNone
        /\ Len(result[r].keycloak_roles.v) = 1
        /\ result[r].keycloak_roles.v[1].name = "RELIFE_ADMIN"
        /\ settings.admin_role_name = "relife_admin"
        /\ ~has_admin_role(result[r], settings)

\* what the call log says of a request's hops
Verified(r) == Len(calls[r]) >= 1 /\ calls[r][1].answer = 200
VerifyFailed(r) == Len(calls[r]) >= 1 /\ calls[r][1].answer \notin {Pending, 200}
ServerCalls(r) == {i \in 1..Len(calls[r]) : calls[r][i].kind \in {"token", "roles"}}
MissingMetadata(r) ==
    Verified(r) /\ ~({"iss", "provider_id"} \subseteq DOMAIN result[r].user.user_metadata)
TokenAnswered(r) == Len(calls[r]) >= 2 /\ calls[r][2].answer # Pending
TokenFailed(r) ==
    TokenAnswered(r)
    /\ (calls[r][2].answer >= 400 \/ "access_token" \notin DOMAIN calls[r][2].body)
RolesAnswered(r) == Len(calls[r]) >= 3 /\ calls[r][3].answer # Pending
Malformed(payload) ==
    \E i \in 1..Len(payload) : ~({"id", "name"} \subseteq DOMAIN payload[i])
RolesFailed(r) ==
    RolesAnswered(r) /\ (calls[r][3].answer >= 400 \/ Malformed(calls[r][3].body))

\* C4: a credential the identity backend rejects, or a backend that cannot be
\* reached, ends the request with 401 whether or not roles were wanted, and
\* neither a token exchange nor a role lookup is issued
C4_RejectedCredentialIs401 ==
    \A r \in Reqs :
        /\ VerifyFailed(r) =>
              /\ pc[r] = "unauthorized"
              /\ resp[r].status_code = 401
              /\ ServerCalls(r) = {}
        /\ (req[r].cred = "expired" /\ pc[r] \notin {"idle", "verifying"}) =>
              VerifyFailed(r)

\* a request that wanted roles was refused at verification
C4_Witness ==
    \E r \in Reqs :
        /\ req[r].cred = "expired" /\ req[r].route = "whoami"
        /\ pc[r] = "unauthorized" /\ calls[r][1].answer = 401

\* C5: for an accepted credential, authentication without roles returns a
\* user whose roles are absent and calls the authorization server not at all
C5_WithoutRolesNoServerCall ==
    \A r \in Reqs :
        (ScopedRoute(r) /\ Verified(r)) =>
            /\ Returned(r)
            /\ result[r].keycloak_roles.isNone
            /\ result[r].token = req[r].cred
            /\ ServerCalls(r) = {}

\* a user with full metadata was returned without roles
C5_Witness ==
    \E r \in Reqs :
        /\ ScopedRoute(r) /\ pc[r] = "authed" /\ req[r].cred = "tok-A"
        /\ result[r].keycloak_roles.isNone

\* C6: with roles wanted, metadata lacking 'iss' or 'provider_id' ends the
\* request with 401 and no call to the authorization server
C6_MissingMetadataIs401 ==
    \A r \in Reqs :
        (RolesRoute(r) /\ MissingMetadata(r)) =>
            /\ pc[r] = "unauthorized"
            /\ resp[r].status_code = 401
            /\ ServerCalls(r) = {}

\* a verified user without issuer was refused
C6_Witness ==
    \E r \in Reqs :
        /\ RolesRoute(r) /\ Verified(r) /\ pc[r] = "unauthorized"
        /\ "iss" \notin DOMAIN result[r].user.user_metadata

\* C7: with roles wanted, every failure after verification (metadata, token
\* exchange, role lookup, role payload) reaches the caller as status 401, never
\* as the upstream status
C7_LaterFailuresAre401 ==
    \A r \in Reqs :
        (RolesRoute(r) /\ (MissingMetadata(r) \/ TokenFailed(r) \/ RolesFailed(r))) =>
            /\ pc[r] = "unauthorized"
            /\ resp[r].status_code = 401

\* the role lookup answered 500 and the caller got 401
C7_Witness ==
    \E r \in Reqs :
        /\ RolesAnswered(r) /\ calls[r][3].answer = 500
        /\ pc[r] = "unauthorized" /\ resp[r].status_code = 401

\* C8: a returned user has roles iff roles were wanted and both the token
\* exchange and the role lookup succeeded in that request; a request whose
\* exchange or lookup failed returns no user at all
C8_RolesIffResolved ==
    \A r \in Reqs :
        /\ Returned(r) =>
              /\ ~result[r].keycloak_roles.isNone
                    <=> /\ RolesRoute(r)
                        /\ TokenAnswered(r) /\ ~TokenFailed(r)
                        /\ RolesAnswered(r) /\ ~RolesFailed(r)
              /\ RolesRoute(r) => ~result[r].keycloak_roles.isNone
        /\ (RolesRoute(r) /\ (TokenFailed(r) \/ RolesFailed(r))) => ~Returned(r)

\* a user was returned with its roles after both hops succeeded
C8_Witness ==
    \E r \in Reqs :
        /\ Returned(r) /\ ~result[r].keycloak_roles.isNone
        /\ RolesAnswered(r) /\ calls[r][3].answer = 200

\* C9: in service-api's app.py, two refused requests with the same credential
\* and route get the same response, status and detail, whichever hop failed
\* and whatever the upstream error said
C9_UniformUnauthorized ==
    \A r, q \in Reqs :
        (impl = "app" /\ pc[r] = "unauthorized" /\ pc[q] = "unauthorized"
            /\ req[r] = req[q])
            => resp[r] = resp[q]

\* C10: a role-lookup answer with an entry lacking id or name ends the request
\* with 401; a returned user holds every entry of the answer, validated
C10_MalformedRoleFails ==
    \A r \in Reqs :
        /\ (RolesAnswered(r) /\ calls[r][3].answer = 200
              /\ Malformed(calls[r][3].body)) =>
              /\ pc[r] = "unauthorized"
              /\ resp[r].status_code = 401
        /\ (Returned(r) /\ ~result[r].keycloak_roles.isNone) =>
              /\ Len(result[r].keycloak_roles.v) = Len(calls[r][3].body)
              /\ \A i \in 1..Len(calls[r][3].body) :
                    /\ {"id", "name"} \subseteq DOMAIN calls[r][3].body[i]
                    /\ result[r].keycloak_roles.v[i].id = calls[r][3].body[i]["id"]
                    /\ result[r].keycloak_roles.v[i].name = calls[r][3].body[i]["name"]

\* an answer whose second entry lacks its name was refused
C10_Witness ==
    \E r \in Reqs :
        /\ RolesAnswered(r) /\ calls[r][3].answer = 200
        /\ Len(calls[r][3].body) = 2
        /\ "name" \in DOMAIN calls[r][3].body[1]
        /\ "id" \in DOMAIN calls[r][3].body[1]
        /\ "name" \notin DOMAIN calls[r][3].body[2]
        /\ pc[r] = "unauthorized"

\* C12: every service client is built from the settings alone and has no
\* Authorization header of a user: the one that verifies the credential (the
\* credential is the value verified, not the client's authorization) and the
\* one handed to the admin route
C12_ServiceHandleFromSettingsOnly ==
    \A r \in Reqs :
        /\ Len(calls[r]) >= 1 =>
              /\ calls[r][1].kind = "get_user"
              /\ calls[r][1].url = <<settings.supabase_url>>
              /\ calls[r][1].auth = <<"Bearer ", settings.supabase_key>>
              /\ calls[r][1].arg = <<req[r].cred>>
        /\ (req[r].route = "admin/users" /\ pc[r] # "idle") =>
              /\ handle[r].supabase_url = settings.supabase_url
              /\ handle[r].supabase_key = settings.supabase_key
              /\ DOMAIN handle[r].headers = {}
              /\ \A i \in 1..Len(calls[r]) :
                    calls[r][i].kind = "query" =>
                        calls[r][i].auth = <<"Bearer ", settings.supabase_key>>

\* the admin route read the private table through its service client
C12_Witness ==
    \E r \in Reqs :
        /\ req[r].route = "admin/users" /\ pc[r] = "done"
        /\ Len(calls[r]) = 4 /\ calls[r][4].kind = "query"
        /\ DOMAIN handle[r].headers = {}

Contains(text, x) == \E i \in 1..Len(text) : text[i] = x

RoleFields == {"id", "name", "description", "composite", "clientRole", "containerId"}

\* C13: the admin token a request obtained is in no log entry, in no field of
\* the user returned and in no response; of the request's calls only the role
\* lookup carries it, as its bearer
C13_AdminTokenNotExposed ==
    \A r \in Reqs :
        (TokenAnswered(r) /\ "access_token" \in DOMAIN calls[r][2].body) =>
            LET t == calls[r][2].body["access_token"]
            IN /\ \A e \in logs : ~Contains(e, t)
               /\ ~Contains(resp[r].detail, t)
               /\ result[r].token # t
               /\ result[r].user.id # t /\ result[r].user.email # t
               /\ \A i \in 1..Len(result[r].keycloak_roles.v) :
                     \A f \in RoleFields : result[r].keycloak_roles.v[i][f] # t
               /\ \A i \in 1..Len(calls[r]) :
                     (Contains(calls[r][i].auth, t) \/ Contains(calls[r][i].url, t)
                        \/ Contains(calls[r][i].arg, t)) =>
                         /\ i = 3
                         /\ calls[r][i].kind = "roles"
                         /\ calls[r][i].auth = <<"Bearer ", t>>

\* a request failed after it had obtained and used its admin token, and the
\* role lookup was logged
C13_Witness ==
    \E r \in Reqs :
        /\ RolesAnswered(r) /\ calls[r][3].answer = 500
        /\ calls[r][3].auth = <<"Bearer ", "admin-tok">>
        /\ pc[r] = "unauthorized" /\ resp[r].detail # NoText
        /\ logs # {}

HopKinds == {"get_user", "token", "roles"}

\* C14: within a request the hops are issued in order and once each:
\* verification first, the token exchange only after verification succeeded
\* and the metadata was read, the role lookup only after the exchange
\* succeeded; a hop that fails ends the request as Unauthorized and no later
\* hop is issued
C14_HopsOrderedOnce ==
    \A r \in Reqs :
        LET cs == calls[r]
        IN /\ pc[r] = "idle" <=> cs = <<>>
           /\ cs # <<>> => cs[1].kind = "get_user"
           /\ \A i, j \in 1..Len(cs) :
                 (i # j /\ cs[i].kind \in HopKinds) => cs[i].kind # cs[j].kind
           /\ \A i \in 1..Len(cs) :
                 /\ i < Len(cs) => cs[i].answer # Pending
                 /\ cs[i].kind = "token" =>
                       /\ i = 2 /\ RolesRoute(r)
                       /\ cs[1].answer = 200
                       /\ {"iss", "provider_id"}
                             \subseteq DOMAIN result[r].user.user_metadata
                 /\ cs[i].kind = "roles" =>
                       /\ i = 3 /\ cs[2].kind = "token"
                       /\ cs[2].answer = 200
                       /\ "access_token" \in DOMAIN cs[2].body
           /\ pc[r] = "verifying" <=> (Len(cs) = 1 /\ cs[1].answer = Pending)
           /\ pc[r] = "exchanging" <=>
                 (Len(cs) = 2 /\ cs[2].kind = "token" /\ cs[2].answer = Pending)
           /\ pc[r] = "resolving" <=>
                 (Len(cs) = 3 /\ cs[3].kind = "roles" /\ cs[3].answer = Pending)
           /\ VerifyFailed(r) => (pc[r] = "unauthorized" /\ Len(cs) = 1)
           /\ (RolesRoute(r) /\ MissingMetadata(r)) =>
                 (pc[r] = "unauthorized" /\ Len(cs) = 1)
           /\ TokenFailed(r) => (pc[r] = "unauthorized" /\ Len(cs) = 2)
           /\ RolesFailed(r) => (pc[r] = "unauthorized" /\ Len(cs) = 3)
           /\ pc[r] = "unauthorized" =>
                 \/ VerifyFailed(r)
                 \/ (RolesRoute(r) /\ (MissingMetadata(r) \/ TokenFailed(r)
                                          \/ RolesFailed(r)))

\* a request went through its three hops in order and returned its user
C14_Witness ==
    \E r \in Reqs :
        /\ pc[r] = "authed" /\ Len(calls[r]) = 3
        /\ calls[r][1].kind = "get_user" /\ calls[r][1].answer = 200
        /\ calls[r][2].kind = "token" /\ calls[r][2].answer = 200
        /\ calls[r][3].kind = "roles" /\ calls[r][3].answer = 200

Queries(r) == {i \in 1..Len(calls[r]) : calls[r][i].kind = "query"}

\* C15: on the admin route the privileged table is read through the service
\* handle only after the three hops succeeded and the identity holds the
\* admin role; a request that fails authentication gets 401, one whose
\* identity is not admin (an empty role list included) gets 403, and in
\* neither case is the data backend queried
C15_AdminReadOnlyAfterCheck ==
    \A r \in Reqs :
        req[r].route = "admin/users" =>
            /\ Queries(r) # {} =>
                  /\ Queries(r) = {4}
                  /\ calls[r][4].arg = <<"private_table">>
                  /\ calls[r][4].auth = <<"Bearer ", settings.supabase_key>>
                  /\ calls[r][1].answer = 200 /\ calls[r][2].answer = 200
                  /\ calls[r][3].kind = "roles" /\ calls[r][3].answer = 200
                  /\ HoldsRoleNamed(result[r], settings.admin_role_name)
                  /\ pc[r] = "done" /\ resp[r].status_code = 200
            /\ pc[r] = "done" => Queries(r) # {}
            /\ pc[r] = "unauthorized" =>
                  (resp[r].status_code = 401 /\ Queries(r) = {})
            /\ pc[r] = "forbidden" =>
                  (resp[r].status_code = 403 /\ Queries(r) = {})
            /\ (VerifyFailed(r) \/ MissingMetadata(r) \/ TokenFailed(r)
                   \/ RolesFailed(r)) => resp[r].status_code = 401
            /\ (RolesAnswered(r) /\ calls[r][3].answer = 200
                   /\ calls[r][3].body = <<>> /\ pc[r] # "authed") =>
                  (pc[r] = "forbidden" /\ resp[r].status_code = 403)

\* the role lookup answered with an empty list and the admin route said 403
C15_Witness ==
    \E r \in Reqs :
        /\ req[r].route = "admin/users" /\ req[r].cred = "tok-A"
        /\ RolesAnswered(r) /\ calls[r][3].answer = 200
        /\ calls[r][3].body = <<>>
        /\ pc[r] = "forbidden" /\ resp[r].status_code = 403
        /\ Queries(r) = {}

OptionalRoleFields == {"description", "composite", "clientRole", "containerId"}

\* the role `role` is the payload entry `entry`, field by field
SameRole(role, entry) ==
    /\ {"id", "name"} \subseteq DOMAIN entry
    /\ role.id = entry["id"] /\ role.name = entry["name"]
    /\ \A f \in OptionalRoleFields :
          role[f] = (IF f \in DOMAIN entry THEN entry[f] ELSE "None")

AllHopsSucceeded(r) ==
    /\ Verified(r)
    /\ TokenAnswered(r) /\ ~TokenFailed(r)
    /\ RolesAnswered(r) /\ ~RolesFailed(r)

\* C16: when every hop succeeds the request returns an identity with the
\* credential it was given, the user the identity backend returned, and the
\* entries of the role-lookup answer, all of them, in the answer's order;
\* with the answer [{id: "1", name: "relife_admin"}] and the default
\* admin-role name the identity is admin
C16_SuccessfulIdentityIsFaithful ==
    \A r \in Reqs :
        (RolesRoute(r) /\ AllHopsSucceeded(r)) =>
            LET payload == calls[r][3].body
                roles == result[r].keycloak_roles
            IN /\ Returned(r)
               /\ result[r].token = req[r].cred
               /\ IdentityBackend(req[r].cred).ok
               /\ result[r].user = IdentityBackend(req[r].cred).val
               /\ ~roles.isNone
               /\ Len(roles.v) = Len(payload)
               /\ \A i \in 1..Len(payload) : SameRole(roles.v[i], payload[i])
               /\ (payload = <<("id" :> "1") @@ ("name" :> "relife_admin")>>
                     /\ settings.admin_role_name = DefaultAdminRoleName)
                    => has_admin_role(result[r], settings)

\* an identity returned with two different roles, in the answer's order
C16_Witness ==
    \E r \in Reqs :
        /\ RolesRoute(r) /\ AllHopsSucceeded(r) /\ Returned(r)
        /\ req[r].cred = "tok-A" /\ result[r].user.id = "u1"
        /\ Len(calls[r][3].body) = 2
        /\ calls[r][3].body[1]["id"] = "2" /\ calls[r][3].body[2]["id"] = "1"
        /\ result[r].keycloak_roles.v[1].id = "2"
        /\ result[r].keycloak_roles.v[1].composite = "false"
        /\ result[r].keycloak_roles.v[2].id = "1"
        /\ result[r].keycloak_roles.v[2].composite = "None"

\* the endpoints a request of each credential has to address
ExpectedTokenUrl(cred) ==
    IF cred = "tok-A"
    THEN <<"https://idp", "/realms", "/r1", "/protocol/openid-connect/token">>
    ELSE <<"https://idp2", "/realms", "/r2", "/", "/protocol/openid-connect/token">>

ExpectedRolesUrl(cred) ==
    IF cred = "tok-A"
    THEN <<"https://idp", "/admin/realms", "/r1",
           "/users/", "sub-1", "/role-mappings/realm">>
    ELSE <<"https://idp2", "/admin/realms", "/r2",
           "/users/", "sub-2", "/role-mappings/realm">>

\* C11: under any interleaving, the token exchange and the role lookup of a
\* request go to the issuer of that request's identity, with the process's
\* client credentials, and the role lookup bears the token that the same
\* request's exchange returned
C11_TokenPerRequestAndIssuer ==
    \A r \in Reqs :
        /\ Len(calls[r]) >= 2 /\ RolesRoute(r) =>
              /\ calls[r][2].kind = "token"
              /\ calls[r][2].url = ExpectedTokenUrl(req[r].cred)
              /\ calls[r][2].arg = <<"client_credentials",
                                     settings.keycloak_client_id,
                                     settings.keycloak_client_secret>>
        /\ Len(calls[r]) >= 3 /\ RolesRoute(r) =>
              /\ calls[r][3].kind = "roles"
              /\ calls[r][3].url = ExpectedRolesUrl(req[r].cred)
              /\ calls[r][2].answer = 200
              /\ calls[r][3].auth = <<"Bearer ", calls[r][2].body["access_token"]>>

\* two requests of different issuers look their roles up at once, each with
\* the token of its own exchange
C11_Witness ==
    \E r, q \in Reqs :
        /\ pc[r] = "resolving" /\ pc[q] = "resolving"
        /\ req[r].cred = "tok-A" /\ req[q].cred = "tok-B"
        /\ calls[r][3].auth = <<"Bearer ", "admin-tok-2">>
        /\ calls[q][3].auth = <<"Bearer ", "admin-tok">>

====
